---- MODULE Spec2Model ----
(***************************************************************************)
(* State-machine model of src/pipeline.py: the dispatcher (__main__), the  *)
(* worker pool, the job runner exec_pipeline, the tuning Classifier, the   *)
(* VectorizerMixin adapter and the aggregator listener.                    *)
(***************************************************************************)
EXTENDS Integers, Sequences, FiniteSets, TLC

\* ------------------------------------------------------------------ bounds
MaxPairs == 2    \* the registries hold at most MaxPairs (classifier, strategy) pairs
MaxCpu == 2      \* mp.cpu_count() returns a value of 1..MaxCpu
NRows  == 2      \* rows of the dataset
MaxApply == 2    \* label coercion is applied at most MaxApply times to a column

\* --------------------------------------------------------------- registries
\* Key order of the clf_models literal; the MultinomialNB entry is the one the
\* source keeps commented out at the head of the dictionary.
ClfOrder(mnb) ==
    IF mnb
    THEN <<"MultinomialNB", "NaiveBayes", "SVC", "DecisionTree", "MLPClassifier",
           "RandomForest", "GradientBoosting", "LogisticRegression", "AdaBoost">>
    ELSE <<"NaiveBayes", "SVC", "DecisionTree", "MLPClassifier",
           "RandomForest", "GradientBoosting", "LogisticRegression", "AdaBoost">>

\* key order of the vec_cls literal
VecOrder == <<"Word2Vec", "Word2Vec-TFIDF", "Tfidf", "FastText">>

\* registry sizes the model runs with: 1 <= n * m <= MaxPairs
Sizes ==
    {s \in (1..MaxPairs) \X (1..MaxPairs) :
        /\ s[1] * s[2] <= MaxPairs
        /\ s[1] <= Len(ClfOrder(FALSE))
        /\ s[2] <= Len(VecOrder)}

Rows == 1..NRows

\* train_test_split(test_size=0.3): n_test = ceil(0.3 * n), n_train = n - n_test
NTest == (3 * NRows + 9) \div 10
Splits == {tr \in SUBSET Rows : Cardinality(tr) = NRows - NTest}

\* mutant: a pool with one worker less, none left for the jobs when cpu_count() is 1
PoolSizeNoHeadroom(c) == (c \div 2) + 1

\* mp.Pool(mp.cpu_count()//2 + 2)
PoolSize(c) == (c \div 2) + 2

\* values a cell of the label column can hold after read_csv, written as Python
\* literals: booleans, integers, floats, strings and the missing value
LabelValues == {"False", "True", "0", "1", "2", "-1", "0.0", "1.0", "'False'", "'0'", "nan"}

\* label == False in Python: true of the values that are numerically zero
EqFalse(label) == label \in {"False", "0", "0.0"}

\* mutant: the test is the identity test `label is False`
CoerceByIdentity(label) == IF label = "False" THEN "0" ELSE "1"

\* lambda label: 0 if label == False else 1
Coerce(label) == IF EqFalse(label) THEN "0" ELSE "1"

\* data['label'] = data['label'].apply(...)
CoerceColumn(col) == [r \in DOMAIN col |-> Coerce(col[r])]

\* the label column of the dataset the run is given: False, True, False, ...
CsvLabels == [r \in Rows |-> IF r % 2 = 1 THEN "False" ELSE "True"]

VARIABLES
    argv_ok,      \* len(sys.argv) >= 2
    path_exists,  \* os.path.exists(fname)
    mnb,          \* the MultinomialNB registry entry is enabled
    nClf,         \* number of entries of clf_models
    nVec,         \* number of entries of vec_cls
    negVecs,      \* feature strategies whose matrix holds a negative value
    pc,           \* position of the dispatcher (__main__)
    exitStatus,   \* process exit status, -1 while running
    diag,         \* what the process printed on leaving: none, usage, traceback
    data,         \* the Dataset: "none", "prepared"
    labels,       \* the label column (of the file, then of the Dataset)
    ncoerce,      \* number of times label coercion was applied to the column
    pool,         \* "none", "run", "close", "joined", "terminated"
    psize,        \* number of worker processes of the pool (0 before it exists)
    tasks,        \* tasks submitted to the pool, in submission order
    jobs,         \* the dispatcher's list of job handles (indices into tasks)
    nsub,         \* pairs of the cross product submitted so far
    ai,           \* index into jobs of the handle the dispatcher waits on
    st,           \* state of each task
    train,        \* per job: X_train as a set of rows ({} before the split)
    seen,         \* per job: rows handed to the feature strategy (ctor or fit)
    vecFits,      \* per job: number of fit calls on the feature strategy
    fitted,       \* per job: the GridSearchCV of its Classifier is fitted
    q,            \* the Aggregation Channel (manager.Queue)
    putlog,       \* every q.put so far, in order: who put what
    got,          \* items the listener has dequeued, in order
    file,         \* durable lines the listener wrote to the report file
    buf,          \* lines written but not yet flushed
    stale         \* the report file still holds the lines of an earlier run of the day

vars == <<argv_ok, path_exists, mnb, nClf, nVec, negVecs, pc, exitStatus, diag, data,
          labels, ncoerce, pool, psize, tasks, jobs, nsub, ai, st, train, seen,
          vecFits, fitted, q, putlog, got, file, buf, stale>>

envVars  == <<argv_ok, path_exists, mnb, nClf, nVec, negVecs>>
jobVars  == <<train, seen, vecFits, fitted>>
fileVars == <<got, file, buf, stale>>
prepVars == <<labels, ncoerce>>

\* ------------------------------------------------------------------ helpers
\* clf_models.keys() in iteration order
clf_models == SubSeq(ClfOrder(mnb), 1, nClf)

\* keys of the clf_params literal; the MultinomialNB entry is commented out
\* together with the one of clf_models
clf_params ==
    {"NaiveBayes", "SVC", "DecisionTree", "MLPClassifier", "GradientBoosting",
     "LogisticRegression", "AdaBoost", "RandomForest"}
        \cup (IF mnb THEN {"MultinomialNB"} ELSE {})

\* vec_cls.keys() in iteration order
vec_cls == SubSeq(VecOrder, 1, nVec)

NPairs == Len(clf_models) * Len(vec_cls)

\* mutant: the inner loop never advances
PairAtFirstVec(i) ==
    [clf |-> clf_models[((i - 1) \div Len(vec_cls)) + 1],
     vec |-> vec_cls[1]]

\* i-th pair of the nested loops: for clf_method ...: for vec_method ...
PairAt(i) ==
    [clf |-> clf_models[((i - 1) \div Len(vec_cls)) + 1],
     vec |-> vec_cls[((i - 1) % Len(vec_cls)) + 1]]

TaskIds == 1..Len(tasks)
JobIds == {k \in TaskIds : tasks[k].kind = "job"}
ListenerIds == {k \in TaskIds : tasks[k].kind = "listener"}

JobRunning == {"split", "fit", "pred", "rep"}
ListenerRunning == {"recv", "written"}
\* how a task ended: returned, raised NotFittedError, raised another exception,
\* or its worker was terminated
Finished == {"ok", "nfe", "exc", "killed"}

Busy == Cardinality({k \in TaskIds : st[k] \notin (Finished \cup {"queued"})})

\* items of the channel: the sentinel 'done' and the Report Record of a pair
done == [tag |-> "done", clf |-> "", vec |-> ""]
Report(clf, vec) == [tag |-> "report", clf |-> clf, vec |-> vec]

Init ==
    /\ argv_ok \in BOOLEAN
    /\ path_exists \in BOOLEAN
    /\ mnb \in BOOLEAN
    /\ \E s \in Sizes : nClf = s[1] /\ nVec = s[2]
    /\ negVecs \in SUBSET {VecOrder[i] : i \in 1..nVec}
    /\ stale = TRUE
    /\ pc = "argcheck"
    /\ exitStatus = -1
    /\ diag = "none"
    /\ data = "none"
    /\ labels = CsvLabels
    /\ ncoerce = 0
    /\ pool = "none"
    /\ psize = 0
    /\ tasks = <<>>
    /\ jobs = <<>>
    /\ nsub = 0
    /\ ai = 1
    /\ st = <<>>
    /\ train = <<>>
    /\ seen = <<>>
    /\ vecFits = <<>>
    /\ fitted = <<>>
    /\ q = <<>>
    /\ putlog = <<>>
    /\ got = <<>>
    /\ file = <<>>
    /\ buf = <<>>

\* ------------------------------------------------------------ the dispatcher
\* mutant: the usage message is printed and the script goes on
ArgCheckNoExit ==
    /\ pc = "argcheck"
    /\ pc' = "pathcheck"
    /\ diag' = IF argv_ok THEN diag ELSE "usage"
    /\ UNCHANGED <<envVars, putlog, exitStatus, data, prepVars, pool, psize, tasks, jobs, nsub, ai, st, jobVars, q, fileVars>>

\* if len(sys.argv) < 2: print usage; sys.exit('not enough arguments provided!')
\* sys.exit with a string prints it to stderr and exits with status 1
ArgCheck ==
    /\ pc = "argcheck"
    /\ IF argv_ok
       THEN /\ pc' = "pathcheck"
            /\ UNCHANGED <<exitStatus, diag>>
       ELSE /\ pc' = "exited"
            /\ exitStatus' = 1
            /\ diag' = "usage"
    /\ UNCHANGED <<envVars, putlog, data, prepVars, pool, psize, tasks, jobs, nsub, ai, st, jobVars, q, fileVars>>

\* if os.path.exists(fname): ... with no else branch: the script falls off its end
PathCheck ==
    /\ pc = "pathcheck"
    /\ IF path_exists
       THEN /\ pc' = "load"
            /\ UNCHANGED <<exitStatus, diag>>
       ELSE /\ pc' = "exited"
            /\ exitStatus' = 0
            /\ diag' = "none"
    /\ UNCHANGED <<envVars, putlog, data, prepVars, pool, psize, tasks, jobs, nsub, ai, st, jobVars, q, fileVars>>

\* read_csv, label coercion, clean_tweets
Load ==
    /\ pc = "load"
    /\ labels' = CoerceColumn(labels)
    /\ ncoerce' = ncoerce + 1
    /\ data' = "prepared"
    /\ pc' = "mkpool"
    /\ UNCHANGED <<envVars, putlog, exitStatus, diag, pool, psize, tasks, jobs, nsub, ai, st, jobVars, q, fileVars>>

\* manager = mp.Manager(); q = manager.Queue(); pool = mp.Pool(cpu_count()//2 + 2)
MkPool ==
    /\ pc = "mkpool"
    /\ q' = <<>>
    /\ pool' = "run"
    /\ \E c \in 1..MaxCpu : psize' = PoolSize(c)
    /\ pc' = "watcher"
    /\ UNCHANGED <<envVars, putlog, exitStatus, diag, data, prepVars, tasks, jobs, nsub, ai, st, jobVars, fileVars>>

\* pool.apply_async(f, args): the task joins the pool's task queue
Submitted(task) ==
    /\ tasks' = Append(tasks, task)
    /\ st' = Append(st, "queued")
    /\ train' = Append(train, {})
    /\ seen' = Append(seen, {})
    /\ vecFits' = Append(vecFits, 0)
    /\ fitted' = Append(fitted, FALSE)

\* watcher = pool.apply_async(listener, (q,)); jobs = []
SubmitWatcher ==
    /\ pc = "watcher"
    /\ Submitted([kind |-> "listener", clf |-> "", vec |-> ""])
    /\ jobs' = <<>>
    /\ pc' = "submit"
    /\ UNCHANGED <<envVars, putlog, exitStatus, diag, data, prepVars, pool, psize, nsub, ai, q, fileVars>>

\* mutant: the watcher is submitted inside the loop, once per pair
SubmitJobRestartsWatcher ==
    /\ pc = "submit"
    /\ nsub < NPairs
    /\ tasks' = tasks \o <<[kind |-> "listener", clf |-> "", vec |-> ""],
                            [kind |-> "job", clf |-> PairAt(nsub + 1).clf,
                             vec |-> PairAt(nsub + 1).vec]>>
    /\ st' = st \o <<"queued", "queued">>
    /\ train' = train \o <<{}, {}>>
    /\ seen' = seen \o <<{}, {}>>
    /\ vecFits' = vecFits \o <<0, 0>>
    /\ fitted' = fitted \o <<FALSE, FALSE>>
    /\ jobs' = Append(jobs, Len(tasks) + 2)
    /\ nsub' = nsub + 1
    /\ UNCHANGED <<envVars, putlog, pc, exitStatus, diag, data, prepVars, pool, psize, ai, q, fileVars>>

\* one iteration of the nested loops: apply_async(exec_pipeline, ...); jobs.append(job)
SubmitJob ==
    /\ pc = "submit"
    /\ nsub < NPairs
    /\ Submitted([kind |-> "job", clf |-> PairAt(nsub + 1).clf, vec |-> PairAt(nsub + 1).vec])
    /\ jobs' = Append(jobs, Len(tasks) + 1)
    /\ nsub' = nsub + 1
    /\ UNCHANGED <<envVars, putlog, pc, exitStatus, diag, data, prepVars, pool, psize, ai, q, fileVars>>

\* the nested loops are exhausted
SubmitDone ==
    /\ pc = "submit"
    /\ nsub = NPairs
    /\ pc' = "await"
    /\ ai' = 1
    /\ UNCHANGED <<envVars, putlog, exitStatus, diag, data, prepVars, pool, psize, tasks, jobs, nsub, st, jobVars, q, fileVars>>

\* mutant: the loop walks over the jobs without waiting for their results
AwaitJobNoWait ==
    /\ pc = "await"
    /\ ai <= Len(jobs)
    /\ ai' = ai + 1
    /\ UNCHANGED <<envVars, putlog, pc, diag, exitStatus, data, prepVars, pool, psize, tasks, jobs, nsub, st, jobVars, q, fileVars>>

\* for job in jobs: job.get()   -- get() re-raises the exception of a failed task
AwaitJob ==
    /\ pc = "await"
    /\ ai <= Len(jobs)
    /\ st[jobs[ai]] \in {"ok", "nfe", "exc"}
    /\ IF st[jobs[ai]] = "ok"
       THEN /\ ai' = ai + 1
            /\ UNCHANGED <<pc, diag>>
       ELSE /\ pc' = "raised"
            /\ diag' = "traceback"
            /\ UNCHANGED ai
    /\ UNCHANGED <<envVars, putlog, exitStatus, data, prepVars, pool, psize, tasks, jobs, nsub, st, jobVars, q, fileVars>>

\* q.put('done')
PutDone ==
    /\ pc = "await"
    /\ ai > Len(jobs)
    /\ q' = Append(q, done)
    /\ putlog' = Append(putlog, [by |-> 0, msg |-> done])
    /\ pc' = "close"
    /\ UNCHANGED <<envVars, exitStatus, diag, data, prepVars, pool, psize, tasks, jobs, nsub, ai, st, jobVars, fileVars>>

\* pool.close()
PoolClose ==
    /\ pc = "close"
    /\ pool' = "close"
    /\ pc' = "join"
    /\ UNCHANGED <<envVars, putlog, exitStatus, diag, data, prepVars, psize, tasks, jobs, nsub, ai, st, jobVars, q, fileVars>>

\* pool.join(): returns once every worker has exited, i.e. no task is left
PoolJoin ==
    /\ pc = "join"
    /\ \A k \in TaskIds : st[k] \in Finished
    /\ pool' = "joined"
    /\ pc' = "exited"
    /\ exitStatus' = 0
    /\ UNCHANGED <<envVars, putlog, diag, data, prepVars, psize, tasks, jobs, nsub, ai, st, jobVars, q, fileVars>>

\* The exception of job.get() is not caught: the interpreter exits with status 1
\* and the pool's finalizer terminates every worker, whatever it is running.
AtExit ==
    /\ pc = "raised"
    /\ st' = [k \in TaskIds |-> IF st[k] \in Finished THEN st[k] ELSE "killed"]
    /\ train' = [k \in TaskIds |-> {}]
    /\ seen' = [k \in TaskIds |-> {}]
    /\ vecFits' = [k \in TaskIds |-> 0]
    /\ fitted' = [k \in TaskIds |-> FALSE]
    /\ buf' = <<>>
    /\ pool' = "terminated"
    /\ pc' = "exited"
    /\ exitStatus' = 1
    /\ UNCHANGED <<envVars, putlog, diag, data, prepVars, psize, tasks, jobs, nsub, ai, q, got, file, stale>>

\* ------------------------------------------------------------------ the pool
\* An idle worker takes the oldest task of the task queue.
CanStart(k) ==
    /\ pool \in {"run", "close"}
    /\ k \in TaskIds
    /\ st[k] = "queued"
    /\ \A j \in 1..(k - 1) : st[j] # "queued"
    /\ Busy < psize

\* locals of a job are gone once exec_pipeline has returned or raised
Leave(k, how) ==
    /\ st' = [st EXCEPT ![k] = how]
    /\ train' = [train EXCEPT ![k] = {}]
    /\ seen' = [seen EXCEPT ![k] = {}]
    /\ vecFits' = [vecFits EXCEPT ![k] = 0]
    /\ fitted' = [fitted EXCEPT ![k] = FALSE]

mainVars == <<pc, exitStatus, diag, data, labels, ncoerce, pool, psize, tasks, jobs, nsub, ai>>

\* ---------------------------------------------------------------- the job
\* mutant: the search runs whenever no negative value is detected
ClassifierFitUnlessNegative(clf, hasNeg) == ~(clf = "MultinomialNB" /\ hasNeg)

\* Classifier.fit: whether self.gs is fitted afterwards. The else branch belongs
\* to the test of the class name, so a MultinomialNB without negative values
\* falls off the end of fit.
ClassifierFit(clf, hasNeg) ==
    IF clf = "MultinomialNB"
    THEN IF hasNeg
         THEN FALSE    \* print(...); return
         ELSE FALSE    \* no statement left: returns None, gs.fit was not called
    ELSE TRUE          \* return self.gs.fit(X, y)

\* a worker takes the task and starts exec_pipeline: the Started! message and
\* train_test_split(..., test_size=0.3, shuffle=True)
JobSplit(k) ==
    /\ CanStart(k)
    /\ tasks[k].kind = "job"
    /\ \E tr \in Splits : train' = [train EXCEPT ![k] = tr]
    /\ st' = [st EXCEPT ![k] = "split"]
    /\ UNCHANGED <<envVars, putlog, mainVars, seen, vecFits, fitted, q, fileVars>>

\* rows the feature strategy receives from VectorizerMixin.__init__, which calls
\* model(data) with the whole Dataset
CtorRows == Rows

\* mutant: the job overwrites the label column of the Dataset while it fits
JobFitRelabels(k) ==
    /\ k \in JobIds
    /\ st[k] = "split"
    /\ tasks[k].clf \in clf_params
    /\ seen' = [seen EXCEPT ![k] = CtorRows \cup train[k]]
    /\ vecFits' = [vecFits EXCEPT ![k] = @ + 1]
    /\ fitted' = [fitted EXCEPT ![k] = ClassifierFit(tasks[k].clf, tasks[k].vec \in negVecs)]
    /\ st' = [st EXCEPT ![k] = "fit"]
    /\ labels' = [r \in DOMAIN labels |-> "0"]
    /\ UNCHANGED <<envVars, putlog, pc, exitStatus, diag, data, ncoerce, pool, psize, tasks,
                   jobs, nsub, ai, train, q, fileVars>>

\* Pipeline([(vec_method, VectorizerMixin(vec_cls[vec_method], data)), ('Classifier', ...)])
\* clf.fit(X_train, y_train): feature strategy fit + transform, then Classifier.fit
JobFit(k) ==
    /\ k \in JobIds
    /\ st[k] = "split"
    /\ tasks[k].clf \in clf_params
    /\ seen' = [seen EXCEPT ![k] = CtorRows \cup train[k]]
    /\ vecFits' = [vecFits EXCEPT ![k] = @ + 1]
    /\ fitted' = [fitted EXCEPT ![k] = ClassifierFit(tasks[k].clf, tasks[k].vec \in negVecs)]
    /\ st' = [st EXCEPT ![k] = "fit"]
    /\ UNCHANGED <<envVars, putlog, mainVars, train, q, fileVars>>

\* mutant: no except clause, NotFittedError leaves exec_pipeline
PredictOutcomeUncaught(isFitted) == IF isFitted THEN "pred" ELSE "nfe"

\* try: y_pred = clf.predict(X_test)  except NotFittedError: return
\* gs.predict raises NotFittedError on a search that was never fitted; the except
\* clause turns it into a plain return.
PredictOutcome(isFitted) == IF isFitted THEN "pred" ELSE "ok"

\* after predict the model no longer tracks the split of the job
JobPredict(k) ==
    /\ k \in JobIds
    /\ st[k] = "fit"
    /\ IF PredictOutcome(fitted[k]) = "pred"
       THEN /\ st' = [st EXCEPT ![k] = "pred"]
            /\ train' = [train EXCEPT ![k] = {}]
            /\ seen' = [seen EXCEPT ![k] = {}]
            /\ UNCHANGED <<vecFits, fitted>>
       ELSE Leave(k, PredictOutcome(fitted[k]))
    /\ UNCHANGED <<envVars, putlog, mainVars, q, fileVars>>

\* mutant: the record is enqueued before the report is generated, and again at
\* the end
JobReportAfterPut(k) ==
    /\ k \in JobIds
    /\ st[k] = "pred"
    /\ q' = Append(q, Report(tasks[k].clf, tasks[k].vec))
    /\ putlog' = Append(putlog, [by |-> k, msg |-> Report(tasks[k].clf, tasks[k].vec)])
    /\ st' = [st EXCEPT ![k] = "rep"]
    /\ UNCHANGED <<envVars, mainVars, jobVars, fileVars>>

\* Writer(...); generate_plots(); classification_report(best_estimator)
JobReport(k) ==
    /\ k \in JobIds
    /\ st[k] = "pred"
    /\ st' = [st EXCEPT ![k] = "rep"]
    /\ UNCHANGED <<envVars, putlog, mainVars, jobVars, q, fileVars>>

\* mutant: the record is enqueued twice
JobPutTwice(k) ==
    /\ k \in JobIds
    /\ st[k] = "rep"
    /\ q' = q \o <<Report(tasks[k].clf, tasks[k].vec), Report(tasks[k].clf, tasks[k].vec)>>
    /\ putlog' = putlog \o <<[by |-> k, msg |-> Report(tasks[k].clf, tasks[k].vec)],
                              [by |-> k, msg |-> Report(tasks[k].clf, tasks[k].vec)]>>
    /\ Leave(k, "ok")
    /\ UNCHANGED <<envVars, mainVars, fileVars>>

\* mutant: the channel holds one item, put waits while it is full
JobPutBounded(k) ==
    /\ k \in JobIds
    /\ st[k] = "rep"
    /\ Len(q) < 1
    /\ q' = Append(q, Report(tasks[k].clf, tasks[k].vec))
    /\ putlog' = Append(putlog, [by |-> k, msg |-> Report(tasks[k].clf, tasks[k].vec)])
    /\ Leave(k, "ok")
    /\ UNCHANGED <<envVars, mainVars, fileVars>>

\* q.put(result) and return; manager.Queue() has no maximum size
JobPut(k) ==
    /\ k \in JobIds
    /\ st[k] = "rep"
    /\ q' = Append(q, Report(tasks[k].clf, tasks[k].vec))
    /\ putlog' = Append(putlog, [by |-> k, msg |-> Report(tasks[k].clf, tasks[k].vec)])
    /\ Leave(k, "ok")
    /\ UNCHANGED <<envVars, mainVars, fileVars>>

\* any exception other than NotFittedError at predict leaves exec_pipeline
JobRaise(k) ==
    /\ k \in JobIds
    /\ st[k] \in JobRunning
    /\ Leave(k, "exc")
    /\ UNCHANGED <<envVars, putlog, mainVars, q, fileVars>>

exec_pipeline(k) ==
    \/ JobSplit(k)
    \/ JobFit(k)
    \/ JobPredict(k)
    \/ JobReport(k)
    \/ JobPut(k)

\* ------------------------------------------------------------ the aggregator
\* a worker takes the task; with open(report_path, 'w') as f: the file is created
\* or truncated
ListenerOpen(k) ==
    /\ CanStart(k)
    /\ tasks[k].kind = "listener"
    /\ file' = <<>>
    /\ buf' = <<>>
    /\ stale' = FALSE
    /\ st' = [st EXCEPT ![k] = "recv"]
    /\ UNCHANGED <<envVars, putlog, mainVars, jobVars, q, got>>

\* open() raises (no results directory, no permission): the task ends with the error
ListenerOpenFail(k) ==
    /\ CanStart(k)
    /\ tasks[k].kind = "listener"
    /\ st' = [st EXCEPT ![k] = "exc"]
    /\ UNCHANGED <<envVars, putlog, mainVars, jobVars, q, fileVars>>

\* mutant: the channel hands out its newest item first
ListenerRecvNewest(k) ==
    /\ k \in ListenerIds
    /\ st[k] = "recv"
    /\ q # <<>>
    /\ q' = SubSeq(q, 1, Len(q) - 1)
    /\ got' = Append(got, q[Len(q)])
    /\ IF q[Len(q)] = done
       THEN /\ st' = [st EXCEPT ![k] = "ok"]
            /\ UNCHANGED <<file, buf>>
       ELSE /\ st' = [st EXCEPT ![k] = "written"]
            /\ buf' = Append(buf, q[Len(q)])
            /\ UNCHANGED file
    /\ UNCHANGED <<envVars, putlog, mainVars, jobVars, stale>>

\* msg = q.get(); if msg == 'done': break (the with block closes the file);
\* otherwise f.write(str(msg) + '\n')
ListenerRecv(k) ==
    /\ k \in ListenerIds
    /\ st[k] = "recv"
    /\ q # <<>>
    /\ q' = Tail(q)
    /\ got' = Append(got, Head(q))
    /\ IF Head(q) = done
       THEN /\ st' = [st EXCEPT ![k] = "ok"]
            /\ UNCHANGED <<file, buf>>
       ELSE /\ st' = [st EXCEPT ![k] = "written"]
            /\ buf' = Append(buf, Head(q))
            /\ UNCHANGED file
    /\ UNCHANGED <<envVars, putlog, mainVars, jobVars, stale>>

\* mutant: the line stays in the buffer of the file object
ListenerFlushNothing(k) ==
    /\ k \in ListenerIds
    /\ st[k] = "written"
    /\ st' = [st EXCEPT ![k] = "recv"]
    /\ UNCHANGED <<envVars, putlog, mainVars, jobVars, q, fileVars>>

\* f.flush()
ListenerFlush(k) ==
    /\ k \in ListenerIds
    /\ st[k] = "written"
    /\ file' = file \o buf
    /\ buf' = <<>>
    /\ st' = [st EXCEPT ![k] = "recv"]
    /\ UNCHANGED <<envVars, putlog, mainVars, jobVars, q, got, stale>>

listener(k) ==
    \/ ListenerOpen(k)
    \/ ListenerRecv(k)
    \/ ListenerFlush(k)

Main ==
    \/ ArgCheck
    \/ PathCheck
    \/ Load
    \/ MkPool
    \/ SubmitWatcher
    \/ SubmitJob
    \/ SubmitDone
    \/ AwaitJob
    \/ PutDone
    \/ PoolClose
    \/ PoolJoin

Next ==
    \/ Main
    \/ AtExit
    \/ \E k \in TaskIds : exec_pipeline(k)
    \/ \E k \in TaskIds : JobRaise(k)
    \/ \E k \in TaskIds : listener(k)
    \/ \E k \in TaskIds : ListenerOpenFail(k)

Spec == Init /\ [][Next]_vars

\* Every process that can take a step of its code eventually takes one: the
\* operating system schedules the dispatcher and the workers, and each job step
\* ends in bounded time. Raising is a possible outcome, never an obligation.
Progress ==
    \/ Main
    \/ AtExit
    \/ \E k \in TaskIds : exec_pipeline(k)
    \/ \E k \in TaskIds : listener(k)

SpecLive == Init /\ [][Next]_vars /\ WF_vars(Progress)

\* ------------------------------------------------------- derived notions
Count(seq, x) == Cardinality({i \in 1..Len(seq) : seq[i] = x})

\* everything ever enqueued on the channel, in FIFO order
AllPut == got \o q

\* lines the listener has written (flushed or not)
Lines == file \o buf

PairOf(k) == [clf |-> tasks[k].clf, vec |-> tasks[k].vec]
ReportOf(p) == Report(p.clf, p.vec)

\* the representation is incompatible when the classifier needs non-negative
\* input and the features hold a negative value
Compatible(p) == ~(p.clf = "MultinomialNB" /\ p.vec \in negVecs)
CompatiblePairs == {i \in 1..NPairs : Compatible(PairAt(i))}

JobRaised == \E k \in JobIds : st[k] \in {"exc", "nfe"}
RunOver == pc = "exited"

\* ------------------------------------------------------------------ claims
\* The part of C1 that constrains the order of events: the sentinel is enqueued
\* at most once, only when every submitted job has ended, nothing follows it on
\* the channel, and once consumed the listener has stopped with nothing pending.
SentinelOrder ==
    /\ Count(AllPut, done) <= 1
    /\ (Count(AllPut, done) = 1 =>
            /\ pc \in {"close", "join", "exited"}
            /\ nsub = NPairs
            /\ \A k \in JobIds : st[k] \in Finished)
    /\ \A i \in 1..Len(AllPut) : AllPut[i] = done => i = Len(AllPut)
    /\ (Count(got, done) = 1 =>
            /\ q = <<>>
            /\ buf = <<>>
            /\ \A k \in ListenerIds : st[k] = "ok")

\* C1: in every run that reaches job submission the sentinel is enqueued exactly
\* once, by the dispatcher, after every submitted job has finished; it is the
\* last item consumed and nothing is written after it.
C1_SentinelExactlyOnce ==
    /\ SentinelOrder
    /\ (RunOver /\ nsub >= 1 => Count(AllPut, done) = 1)

\* C2: in every run that starts the aggregator (and in which it opens the report
\* file), the aggregator has consumed the sentinel and closed the file when the
\* run is over, whatever the jobs did.
C2_AggregatorStops ==
    (RunOver /\ ListenerIds # {} /\ \A k \in ListenerIds : st[k] # "exc")
        => /\ \A k \in ListenerIds : st[k] = "ok"
           /\ Count(got, done) = 1

\* C3: a run in which no job raises produces exactly one Report Record for every
\* compatible pair, hence as many records as there are compatible pairs.
C3_OneRecordPerCompatiblePair ==
    (RunOver /\ pool = "joined" /\ \A k \in JobIds : st[k] = "ok")
        => /\ \A i \in CompatiblePairs : Count(AllPut, ReportOf(PairAt(i))) = 1
           /\ Len(AllPut) - Count(AllPut, done) = Cardinality(CompatiblePairs)

\* C4: an exception raised in one job does not keep any other job from completing:
\* when the run is over, the record of every other compatible pair is in the
\* report file. (Stated for the classifiers that fit on every input and for runs
\* whose aggregator opened the file, so that only the raising job is at play.)
C4_OtherJobsComplete ==
    (RunOver /\ JobRaised /\ \A l \in ListenerIds : st[l] # "exc")
        => \A i \in 1..NPairs :
              (/\ PairAt(i).clf # "MultinomialNB"
               /\ ~(\E k \in JobIds : PairOf(k) = PairAt(i) /\ st[k] \in {"exc", "nfe"}))
                  => Count(file, ReportOf(PairAt(i))) = 1

\* C5: for an incompatible pair the fit is declined, predict fails with the
\* not-fitted condition, which the job catches: the job never reaches report
\* generation, never ends with NotFittedError, and no record of the pair is ever
\* enqueued or written; a dispatcher that raised did not raise on such a job
\* unless the job failed for another reason.
C5_IncompatiblePairDeclines ==
    \A k \in JobIds :
        ~Compatible(PairOf(k)) =>
            /\ st[k] \notin {"pred", "rep", "nfe"}
            /\ (st[k] = "fit" => ~fitted[k])
            /\ Count(AllPut, ReportOf(PairOf(k))) = 0
            /\ Count(Lines, ReportOf(PairOf(k))) = 0

\* reached: an incompatible pair returned normally, another pair's record is in
\* the file and the run shut down with status 0
C5_Witness ==
    /\ RunOver /\ pool = "joined" /\ exitStatus = 0
    /\ \E k \in JobIds : ~Compatible(PairOf(k)) /\ st[k] = "ok"
    /\ \E k \in JobIds : Compatible(PairOf(k)) /\ Count(file, ReportOf(PairOf(k))) = 1

\* the run is DONE: jobs executed, sentinel sent, aggregator ended, join returned
Drained ==
    /\ RunOver /\ pool = "joined"
    /\ nsub = NPairs /\ Len(jobs) = NPairs
    /\ \A k \in JobIds : st[k] = "ok"
    /\ \A k \in ListenerIds : st[k] \in {"ok", "exc"}
    /\ Count(AllPut, done) = 1

\* C6: once the pool of cpu_count()//2 + 2 workers exists, the run reaches DONE
\* (every job executed, sentinel sent, aggregator ended, join returned) unless a
\* job raises.
C6_RunDrains == (pool = "run") ~> (Drained \/ JobRaised)

\* reached: the smallest pool (2 workers, one held by the aggregator) drained a
\* run with the largest cross product
C6_Witness ==
    /\ Drained
    /\ psize = 2
    /\ NPairs = MaxPairs
    /\ \A k \in TaskIds : st[k] = "ok"

C8_MissingPathFails ==
    (RunOver /\ argv_ok /\ ~path_exists)
        => /\ exitStatus # 0
           /\ diag # "none"
           /\ tasks = <<>>

\* C9: there is at most one aggregator, and every change of the report file
\* (truncation or a new durable line) is a step of that aggregator.
C9_SingleWriter ==
    /\ [](Cardinality(ListenerIds) <= 1)
    /\ [][(file' # file \/ stale' # stale) =>
            \E k \in ListenerIds :
                /\ st[k] \in {"queued", "written"}
                /\ st'[k] = "recv"
                /\ \A j \in TaskIds \ {k} : st'[j] = st[j]]_vars

\* reached: the aggregator has written a durable line while a job is running
C9_Witness ==
    /\ Cardinality(ListenerIds) = 1
    /\ Len(file) >= 1
    /\ \E k \in JobIds : st[k] \in JobRunning

\* C10: in each job the feature strategy is fitted at most once and, up to
\* predict, has been handed rows of the job's own training split only.
C10_NoLeakage ==
    \A k \in JobIds :
        /\ vecFits[k] <= 1
        /\ (st[k] = "fit" => seen[k] \subseteq train[k])

\* ------------------------------------------------ label coercion on its own
\* The state in front of the coercion statement, for every label column read_csv
\* can deliver.
InitCoerce ==
    /\ argv_ok = TRUE
    /\ path_exists = TRUE
    /\ mnb = FALSE
    /\ nClf = 1
    /\ nVec = 1
    /\ negVecs = {}
    /\ stale = TRUE
    /\ pc = "load"
    /\ exitStatus = -1
    /\ diag = "none"
    /\ data = "none"
    /\ labels \in [Rows -> LabelValues]
    /\ ncoerce = 0
    /\ pool = "none"
    /\ psize = 0
    /\ tasks = <<>>
    /\ jobs = <<>>
    /\ nsub = 0
    /\ ai = 1
    /\ st = <<>>
    /\ train = <<>>
    /\ seen = <<>>
    /\ vecFits = <<>>
    /\ fitted = <<>>
    /\ q = <<>>
    /\ putlog = <<>>
    /\ got = <<>>
    /\ file = <<>>
    /\ buf = <<>>

\* data['label'] = data['label'].apply(lambda label: 0 if label == False else 1),
\* executed on the column once more
ApplyCoercion ==
    /\ pc = "load"
    /\ ncoerce < MaxApply
    /\ labels' = CoerceColumn(labels)
    /\ ncoerce' = ncoerce + 1
    /\ UNCHANGED <<envVars, putlog, pc, exitStatus, diag, data, pool, psize, tasks, jobs,
                   nsub, ai, st, jobVars, q, fileVars>>

SpecCoerce == InitCoerce /\ [][ApplyCoercion]_vars

\* C11: once label coercion has been applied, every label is 0 or 1 and applying
\* the coercion again leaves the column as it is.
C11_CoercionIdempotent ==
    /\ [](ncoerce >= 1 => \A r \in Rows : labels[r] \in {"0", "1"})
    /\ [][ncoerce >= 1 => labels' = labels]_vars

\* reached: the coercion was applied twice to a column that holds both classes
C11_Witness ==
    /\ ncoerce = 2
    /\ \E r \in Rows : labels[r] = "0"
    /\ \E r \in Rows : labels[r] = "1"

\* C12: without the dataset argument the run does nothing but end: the usage
\* message is printed, the exit status is not zero, and no data is loaded, no
\* pool is created and no task is scheduled.
C12_MissingArgumentExits ==
    ~argv_ok =>
        /\ pc \in {"argcheck", "exited"}
        /\ data = "none"
        /\ ncoerce = 0
        /\ pool = "none"
        /\ tasks = <<>>
        /\ pc = "exited" => (exitStatus # 0 /\ diag = "usage")

\* reached: the run without argument has ended with status 1
C12_Witness == ~argv_ok /\ pc = "exited" /\ exitStatus = 1 /\ diag = "usage"

\* C13: after Classifier.fit the search is fitted exactly when the pair is not
\* (non-negative-only algorithm, features with a negative value).
C13_FitDeclinesOnlyOnNegative ==
    \A k \in JobIds : st[k] = "fit" => (fitted[k] <=> Compatible(PairOf(k)))

\* the records the jobs have put on the channel, in the order of the puts
JobPuts == SelectSeq(putlog, LAMBDA e : e.by # 0)
Msgs(log) == [i \in 1..Len(log) |-> log[i].msg]
Records(seq) == SelectSeq(seq, LAMBDA m : m # done)

\* C14: when the aggregator has stopped on the sentinel, the report file holds
\* exactly the records the jobs put on the channel during this run, each once and
\* in the order they arrived and were dequeued; nothing is left on the channel or
\* unflushed, and nothing of an earlier run is left in the file.
C14_FileIsTheRunsRecords ==
    \A k \in ListenerIds :
        st[k] = "ok" =>
            /\ file = Msgs(JobPuts)
            /\ file = Records(got)
            /\ q = <<>>
            /\ buf = <<>>
            /\ ~stale

\* reached: the aggregator has stopped with two lines written, the record of the
\* pair submitted second in front of the record of the pair submitted first
C14_Witness ==
    /\ \E k \in ListenerIds : st[k] = "ok"
    /\ NPairs = 2
    /\ file = <<ReportOf(PairAt(2)), ReportOf(PairAt(1))>>

\* lifecycle phase of the dispatcher; a run that ends without pool.join() having
\* returned (usage error, absent file, exception of job.get()) has left the
\* lifecycle
Phase ==
    CASE pc \in {"argcheck", "pathcheck", "load", "mkpool"} -> "INIT"
      [] pc \in {"watcher", "submit"} -> "SUBMITTING"
      [] pc = "await" -> "AWAITING_JOBS"
      [] pc \in {"close", "join"} -> "DRAINING"
      [] pc = "exited" /\ pool = "joined" -> "DONE"
      [] OTHER -> "ABORTED"

PhaseRank ==
    CASE Phase = "INIT" -> 1
      [] Phase = "SUBMITTING" -> 2
      [] Phase = "AWAITING_JOBS" -> 3
      [] Phase = "DRAINING" -> 4
      [] Phase = "DONE" -> 5
      [] OTHER -> 0

\* every pair has been submitted and every job has returned
AllJobsCompleted ==
    /\ nsub = NPairs
    /\ Len(jobs) = NPairs
    /\ \A k \in JobIds : st[k] = "ok"

\* C15: the sentinel put, pool.close() and pool.join() happen only when every
\* submitted job has completed, and the dispatcher passes through INIT,
\* SUBMITTING, AWAITING_JOBS, DRAINING, DONE in this order, one phase at a time
\* and never back.
C15_TeardownAfterJobs ==
    /\ [](Phase \in {"DRAINING", "DONE"} => AllJobsCompleted)
    /\ [][((Len(putlog') > Len(putlog) /\ putlog'[Len(putlog')].msg = done)
            \/ (pool' # pool /\ pool' \in {"close", "joined"}))
                => (AllJobsCompleted /\ AllJobsCompleted')]_vars
    /\ [][IF Phase = "ABORTED"
           THEN Phase' = "ABORTED"
           ELSE \/ Phase' \in {Phase, "ABORTED"}
                \/ PhaseRank' = PhaseRank + 1]_vars

\* reached: a run over the largest cross product has passed through teardown
C15_Witness == Phase = "DONE" /\ NPairs = MaxPairs /\ Len(jobs) = MaxPairs

\* number of items task k has put on the channel
PutsBy(k) == Cardinality({i \in 1..Len(putlog) : putlog[i].by = k})

\* the steps of exec_pipeline in program order; every running step can also end
\* the job (exception, termination of the pool), fit can end it by the decline
StepsAfter(s) ==
    CASE s = "queued" -> {"split", "killed"}
      [] s = "split" -> {"fit", "exc", "killed"}
      [] s = "fit" -> {"pred", "ok", "nfe", "exc", "killed"}
      [] s = "pred" -> {"rep", "exc", "killed"}
      [] s = "rep" -> {"ok", "exc", "killed"}
      [] OTHER -> {}

\* C16: a job moves through split, fit, predict, report, enqueue in this order;
\* it puts at most one item on the channel, never the sentinel, and the put is
\* its last step, taken from the state in which predict and report are done.
C16_JobStepOrder ==
    /\ [](\A k \in JobIds :
            /\ PutsBy(k) <= 1
            /\ PutsBy(k) = 1 => st[k] = "ok"
            /\ \A i \in 1..Len(putlog) : putlog[i].by = k => putlog[i].msg # done)
    /\ [][\A k \in JobIds :
            /\ st'[k] # st[k] => st'[k] \in StepsAfter(st[k])
            /\ PutsBy(k)' # PutsBy(k) => (st[k] = "rep" /\ st'[k] = "ok")]_vars

\* reached: a job has enqueued its record and returned while another job is
\* between fit and predict
C16_Witness ==
    /\ \E k \in JobIds : st[k] = "ok" /\ PutsBy(k) = 1
    /\ \E k \in JobIds : st[k] = "fit"

\* the dispatcher has left the nested loops
SubmissionOver == nsub = NPairs /\ pc \notin {"argcheck", "pathcheck", "load", "mkpool", "watcher", "submit"}

\* jobs submitted for the pair (c, v)
JobsFor(c, v) == {k \in JobIds : tasks[k].clf = c /\ tasks[k].vec = v}

\* C17: the aggregator is the first task submitted; every job is for a pair of
\* the cross product, no pair has two jobs and, once submission is over, every
\* pair has exactly one; every classifier name of the registry has a search
\* space.
C17_OneJobPerPair ==
    /\ tasks # <<>> =>
            /\ tasks[1].kind = "listener"
            /\ \A k \in JobIds : k > 1
    /\ \A k \in JobIds :
            /\ \E i \in 1..Len(clf_models) : tasks[k].clf = clf_models[i]
            /\ \E j \in 1..Len(vec_cls) : tasks[k].vec = vec_cls[j]
            /\ tasks[k].clf \in clf_params
    /\ \A i \in 1..Len(clf_models), j \in 1..Len(vec_cls) :
            /\ Cardinality(JobsFor(clf_models[i], vec_cls[j])) <= 1
            /\ SubmissionOver => Cardinality(JobsFor(clf_models[i], vec_cls[j])) = 1
    /\ Len(jobs) = Cardinality(JobIds)
    /\ \A i \in 1..Len(ClfOrder(mnb)) : ClfOrder(mnb)[i] \in clf_params

\* reached: submission is over for a registry with two feature strategies
C17_Witness ==
    /\ SubmissionOver
    /\ Len(vec_cls) = 2
    /\ Cardinality(JobIds) = 2

\* C18: whenever the aggregator is at the receive of its loop, every record it
\* has consumed so far is a durable line of the report file, in the order of
\* consumption, and nothing is left in the buffer.
C18_FlushedBeforeReceive ==
    \A k \in ListenerIds :
        st[k] = "recv" =>
            /\ buf = <<>>
            /\ file = Records(got)
            /\ ~stale

\* reached: the aggregator waits on the empty channel with one durable line while
\* the dispatcher still awaits a job
C18_Witness ==
    /\ \E k \in ListenerIds : st[k] = "recv"
    /\ q = <<>>
    /\ Len(file) = 1
    /\ pc = "await"
    /\ \E k \in JobIds : st[k] \in JobRunning

\* a step of the worker that runs task k: the state of the task changes and the
\* dispatcher stays where it is
WorkerStep(k) == st'[k] # st[k] /\ pc' = pc

\* C19: from the first submission on the Dataset is the prepared one and no step
\* changes it; a step of a job changes nothing but the job's own locals and
\* state and the channel.
C19_DatasetUntouched ==
    /\ [](tasks # <<>> => (data = "prepared" /\ ncoerce = 1))
    /\ [][tasks # <<>> => (data' = data /\ labels' = labels /\ ncoerce' = ncoerce)]_vars
    /\ [][\A k \in JobIds :
            WorkerStep(k) =>
                /\ \A j \in TaskIds \ {k} :
                        /\ st'[j] = st[j]
                        /\ train'[j] = train[j]
                        /\ seen'[j] = seen[j]
                        /\ vecFits'[j] = vecFits[j]
                        /\ fitted'[j] = fitted[j]
                /\ UNCHANGED <<mainVars, fileVars>>]_vars

\* reached: with the prepared Dataset one job is about to enqueue while another
\* has just fitted
C19_Witness ==
    /\ data = "prepared"
    /\ labels = CoerceColumn(CsvLabels)
    /\ \E k \in JobIds : st[k] = "rep"
    /\ \E k \in JobIds : st[k] = "fit"

\* ------------------------------------------- runs with a stalled aggregator
\* The dispatcher and the jobs are scheduled and a worker takes the aggregator
\* task, but the aggregator is never obliged to receive or to write.
JobsProgress ==
    \/ Main
    \/ AtExit
    \/ \E k \in TaskIds : exec_pipeline(k)
    \/ \E k \in TaskIds : ListenerOpen(k) \/ ListenerOpenFail(k)

SpecJobsFair == Init /\ [][Next]_vars /\ WF_vars(JobsProgress)

\* C20: a job that has its record can always put it, whatever the channel holds
\* and whatever the aggregator does; and the dispatcher always gets out of
\* awaiting its jobs even if the aggregator never receives anything.
C20_PutNeverBlocks ==
    /\ [](\A k \in JobIds : st[k] = "rep" => ENABLED JobPut(k))
    /\ (pc = "await") ~> (pc # "await")

\* reached: the aggregator has failed at open, both jobs have enqueued their
\* records and the dispatcher has left the await and put the sentinel
C20_Witness ==
    /\ \E k \in ListenerIds : st[k] = "exc"
    /\ Len(q) = 3
    /\ pc = "close"

====
